---------------------------- MODULE Spec2Model ----------------------------
(***************************************************************************)
(* A model of package expr (src/expr.go): compilation of a Go expression   *)
(* into an Expression, and its evaluation against an environment V.        *)
(*                                                                         *)
(* Go values (interface{}) are records [t |-> dynamic type, v |-> payload].*)
(* Integers are two's-complement words of IntBits bits instead of 64, so   *)
(* that wrap-around stays inside TLC's integers.  A float64 is written      *)
(* <<n, d>>: the float64 nearest to the rational n/d (n/d itself when d is *)
(* a power of two), <<0,1>> and <<0,-1>> for +0 and -0, and d = 0 for +Inf *)
(* (<<1,0>>), -Inf (<<-1,0>>) and NaN (<<0,0>>).                           *)
(* go/parser is a library: a source text comes paired with the tree that   *)
(* parser.ParseExpr returns for it.                                        *)
(***************************************************************************)
EXTENDS Integers, Sequences, FiniteSets, TLC

\* Width of the model's int64/uint64 words.
IntBits == 6
\* Integer literals "0" .. MaxLit appear in the expressions.
MaxLit == 2

(***************************************************************************)
(* Strings.  Go compares strings bytewise; Ascii lists the printable       *)
(* characters in byte order.                                               *)
(***************************************************************************)
AsciiLow == " !\"#$%&'()*+,-./0123456789:;<=>?@ABCDEFGHIJKLMNOPQRSTUVWXYZ[\\]^_"
AsciiHigh == "abcdefghijklmnopqrstuvwxyz{|}~"

CharAt(s, i) == SubSeq(s, i, i)

\* The byte of a character: the escapes TLA+ can write, then AsciiLow from
\* 32 and AsciiHigh from 97 (the backquote, 96, cannot be written).
Code(c) ==
    CASE c = "\t" -> 9
      [] c = "\n" -> 10
      [] c = "\f" -> 12
      [] c = "\r" -> 13
      [] \E i \in 1..Len(AsciiLow) : CharAt(AsciiLow, i) = c ->
           31 + (CHOOSE i \in 1..Len(AsciiLow) : CharAt(AsciiLow, i) = c)
      [] \E i \in 1..Len(AsciiHigh) : CharAt(AsciiHigh, i) = c ->
           96 + (CHOOSE i \in 1..Len(AsciiHigh) : CharAt(AsciiHigh, i) = c)

IsDigit(c) == \E i \in 1..10 : CharAt("0123456789", i) = c

RECURSIVE StrLess(_, _)
\* Go's s < t on strings.
StrLess(s, t) ==
    IF Len(t) = 0 THEN FALSE
    ELSE IF Len(s) = 0 THEN TRUE
    ELSE IF CharAt(s, 1) = CharAt(t, 1)
         THEN StrLess(SubSeq(s, 2, Len(s)), SubSeq(t, 2, Len(t)))
         ELSE Code(CharAt(s, 1)) < Code(CharAt(t, 1))

RECURSIVE DigitsOf(_)
DigitsOf(n) ==
    IF n < 10 THEN CharAt("0123456789", n + 1)
    ELSE DigitsOf(n \div 10) \o CharAt("0123456789", (n % 10) + 1)

\* Decimal rendering of an integer (fmt's %v / %d).
Itoa(n) == IF n < 0 THEN "-" \o DigitsOf(-n) ELSE DigitsOf(n)

RECURSIVE AllDigits(_)
AllDigits(s) ==
    IF Len(s) = 0 THEN TRUE
    ELSE IsDigit(CharAt(s, 1)) /\ AllDigits(SubSeq(s, 2, Len(s)))

RECURSIVE DigitsValue(_)
DigitsValue(s) ==
    IF Len(s) = 0 THEN 0
    ELSE 10 * DigitsValue(SubSeq(s, 1, Len(s) - 1))
         + (Code(CharAt(s, Len(s))) - Code("0"))

RECURSIVE IndexOf(_, _)
\* Position of the first occurrence of character c in s, 0 when absent.
IndexOf(s, c) ==
    IF Len(s) = 0 THEN 0
    ELSE IF CharAt(s, 1) = c THEN 1
    ELSE LET r == IndexOf(SubSeq(s, 2, Len(s)), c) IN IF r = 0 THEN 0 ELSE r + 1

(***************************************************************************)
(* Machine integers.                                                       *)
(***************************************************************************)
RECURSIVE Pow(_, _)
Pow(b, n) == IF n = 0 THEN 1 ELSE b * Pow(b, n - 1)

Modulus == Pow(2, IntBits)
MaxInt64 == Pow(2, IntBits - 1) - 1
MinInt64 == -Pow(2, IntBits - 1)
MaxUint64 == Modulus - 1

\* Conversion to uint64 / int64: the low IntBits bits, read unsigned / signed.
ToUint64(x) == x % Modulus
ToInt64(x) == ((x - MinInt64) % Modulus) + MinInt64

Abs(x) == IF x < 0 THEN -x ELSE x
Sign(x) == IF x < 0 THEN -1 ELSE IF x > 0 THEN 1 ELSE 0

\* Go's integer / and %: the quotient truncates toward zero.
Quo(l, r) == Sign(l) * Sign(r) * (Abs(l) \div Abs(r))
Rem(l, r) == l - r * Quo(l, r)

RECURSIVE Bits(_, _, _, _)
\* Bitwise operation op on the low n bits of the unsigned words a and b.
Bits(op, a, b, n) ==
    IF n = 0 THEN 0
    ELSE LET x == a % 2
             y == b % 2
             z == CASE op = "&" -> IF x = 1 /\ y = 1 THEN 1 ELSE 0
                    [] op = "|" -> IF x = 1 \/ y = 1 THEN 1 ELSE 0
                    [] op = "^" -> IF x # y THEN 1 ELSE 0
                    [] op = "&^" -> IF x = 1 /\ y = 0 THEN 1 ELSE 0
         IN  z + 2 * Bits(op, a \div 2, b \div 2, n - 1)

BitOp(op, l, r) == Bits(op, ToUint64(l), ToUint64(r), IntBits)

\* l << r and l >> r for a shift count r >= 0; a count of IntBits or more
\* shifts every bit out.
Shl(l, r) == IF r >= IntBits THEN 0 ELSE l * Pow(2, r)
Shr(l, r) == IF r >= IntBits THEN (IF l < 0 THEN -1 ELSE 0) ELSE l \div Pow(2, r)

(***************************************************************************)
(* float64.  <<n, d>> with d a power of two is the float64 n/d (every such *)
(* rational TLC can write has a mantissa far below 53 bits); any other     *)
(* <<n, d>> with d > 0 is the float64 nearest to n/d, which is what a      *)
(* literal such as 0.1, or one division of two exact floats, produces.     *)
(* Arithmetic on exact operands is exact for +, - and *, and correctly     *)
(* rounded for /; arithmetic on an operand that is itself rounded would    *)
(* round twice, and the operators are not defined there.                   *)
(***************************************************************************)
RECURSIVE Gcd(_, _)
Gcd(a, b) == IF b = 0 THEN a ELSE Gcd(b, a % b)

\* The rational n/d in lowest terms with a positive denominator (+0 when
\* n = 0); d = 0 is +Inf, -Inf or NaN by the sign of n.
Rat(n, d) ==
    IF d = 0 THEN <<Sign(n), 0>>
    ELSE LET g == Gcd(Abs(n), Abs(d)) IN <<Sign(d) * (n \div g), Abs(d) \div g>>

RECURSIVE IsPow2(_)
IsPow2(d) == d = 1 \/ (d > 1 /\ d % 2 = 0 /\ IsPow2(d \div 2))

IsNaN(f) == f = <<0, 0>>
IsInf(f) == f[2] = 0 /\ f[1] # 0
IsZero(f) == f[1] = 0 /\ f[2] # 0
\* The sign bit: set for negative values, -Inf and -0.
Signbit(f) == f[1] < 0 \/ f = <<0, -1>>
FZero(neg) == IF neg THEN <<0, -1>> ELSE <<0, 1>>
FInf(neg) == IF neg THEN <<-1, 0>> ELSE <<1, 0>>
\* f holds its value exactly: an infinity, NaN, a zero, or a dyadic rational.
IsExact(f) == f[2] = 0 \/ IsZero(f) \/ IsPow2(f[2])

\* l + r.  Inf + -Inf is NaN; a zero sum is +0 unless both operands are -0.
FAdd(l, r) ==
    CASE IsExact(l) /\ IsExact(r) ->
         IF IsNaN(l) \/ IsNaN(r) THEN <<0, 0>>
         ELSE IF IsInf(l) /\ IsInf(r) THEN (IF l = r THEN l ELSE <<0, 0>>)
         ELSE IF IsInf(l) THEN l
         ELSE IF IsInf(r) THEN r
         ELSE IF IsZero(l) /\ IsZero(r) THEN FZero(Signbit(l) /\ Signbit(r))
         ELSE IF IsZero(l) THEN r
         ELSE IF IsZero(r) THEN l
         ELSE Rat(l[1] * r[2] + r[1] * l[2], l[2] * r[2])
FNeg(f) ==
    IF IsNaN(f) THEN f
    ELSE IF IsZero(f) THEN FZero(~Signbit(f))
    ELSE <<-f[1], f[2]>>
\* l - r is l + (-r).
FSub(l, r) == FAdd(l, FNeg(r))
\* l * r.  Inf * 0 is NaN; the sign of the product, a zero included, is the
\* exclusive or of the operands' signs.
FMul(l, r) ==
    CASE IsExact(l) /\ IsExact(r) ->
         IF IsNaN(l) \/ IsNaN(r) THEN <<0, 0>>
         ELSE IF (IsInf(l) /\ IsZero(r)) \/ (IsZero(l) /\ IsInf(r)) THEN <<0, 0>>
         ELSE IF IsInf(l) \/ IsInf(r) THEN FInf(Signbit(l) # Signbit(r))
         ELSE IF IsZero(l) \/ IsZero(r) THEN FZero(Signbit(l) # Signbit(r))
         ELSE Rat(l[1] * r[1], l[2] * r[2])
\* l / r.  Inf/Inf and 0/0 are NaN, x/0 is an infinity, x/Inf a zero; the
\* quotient of two exact finite floats is rounded once.
FQuo(l, r) ==
    CASE IsExact(l) /\ IsExact(r) ->
         IF IsNaN(l) \/ IsNaN(r) THEN <<0, 0>>
         ELSE IF (IsInf(l) /\ IsInf(r)) \/ (IsZero(l) /\ IsZero(r)) THEN <<0, 0>>
         ELSE IF IsInf(l) \/ IsZero(r) THEN FInf(Signbit(l) # Signbit(r))
         ELSE IF IsZero(l) \/ IsInf(r) THEN FZero(Signbit(l) # Signbit(r))
         ELSE Rat(l[1] * r[2], l[2] * r[1])
\* l and r can be compared through their rationals: they are the same
\* pair, or one is an infinity, NaN or a zero, or both are exact, or the
\* rationals are small enough to lie more than one unit in the last place
\* apart whenever they differ (|a/b - c/d| >= 1/(b*d), and a*d and c*b stay
\* below 2^30, far under 2^52), so that rounding to the nearest float64
\* neither merges nor reorders them.  Two large rationals may round to the
\* same float64, and the comparisons are not defined there.
Comparable(l, r) ==
    \/ l = r
    \/ l[2] = 0 \/ IsZero(l) \/ r[2] = 0 \/ IsZero(r)
    \/ IsExact(l) /\ IsExact(r)
    \/ Abs(l[1]) <= Pow(2, 30) \div r[2] /\ Abs(r[1]) <= Pow(2, 30) \div l[2]

\* Ordered comparisons are false as soon as an operand is NaN; -0 and +0 are
\* equal, and so are two pairs that denote the same number, in lowest terms
\* or not.
FLess(l, r) ==
    CASE Comparable(l, r) ->
         /\ ~IsNaN(l) /\ ~IsNaN(r)
         /\ IF l[2] = 0 \/ r[2] = 0
            THEN (IF l[2] = 0 /\ r[2] = 0 THEN l[1] < r[1]
                  ELSE IF l[2] = 0 THEN l[1] < 0 ELSE r[1] > 0)
            ELSE l[1] * Abs(r[2]) < r[1] * Abs(l[2])
FEq(l, r) ==
    CASE Comparable(l, r) ->
         /\ ~IsNaN(l) /\ ~IsNaN(r)
         /\ \/ l = r
            \/ IsZero(l) /\ IsZero(r)
            \/ /\ l[2] # 0 /\ r[2] # 0 /\ l[1] # 0 /\ r[1] # 0
               /\ Rat(l[1], l[2]) = Rat(r[1], r[2])

RECURSIVE OddPart(_)
\* n without its factors of two.
OddPart(n) == IF n # 0 /\ n % 2 = 0 THEN OddPart(n \div 2) ELSE n

\* A float32 payload <<n, d>> is the float32 nearest to n/d, and n/d itself
\* when d is a power of two and n has no more than 24 significant bits.
IsExact32(f) ==
    f[2] = 0 \/ IsZero(f) \/ (IsPow2(f[2]) /\ OddPart(Abs(f[1])) < Pow(2, 24))

\* float64(rv) of a float32 keeps the value.  The float64 of a float32 that
\* is itself rounded is not the float64 nearest to the rational, and the
\* widening is defined on the exact float32s.
Widen32(f) == CASE IsExact32(f) -> f

\* Truncation toward zero of a finite float.
FTrunc(f) == Quo(f[1], f[2])

(***************************************************************************)
(* Go values.  Val(t, v) is an interface{} holding a v of dynamic type t;  *)
(* the payload of a V is the function from its keys to their values.  A    *)
(* panic travelling up the evaluator is the record Panic(dyn, msg): dyn is *)
(* "error" when the panic value implements error (fmt.Errorf, a runtime    *)
(* error) and "string" when it is a plain string.                          *)
(***************************************************************************)
Val(t, v) == [t |-> t, v |-> v]
Nil == Val("nil", 0)
GoBool(b) == Val("bool", b)
Int64(i) == Val("int64", i)
Uint64(i) == Val("uint64", i)
Float64(f) == Val("float64", f)
Str(s) == Val("string", s)
Panic(dyn, msg) == Val("panic", [dyn |-> dyn, msg |-> msg])
IsPanic(r) == r.t = "panic"
\* v == nil: the interface holds no value.
IsNil(v) == v.t = "nil"

\* normalize: the type switch has no case for uint, which falls through to
\* the final return.
normalize(v) ==
    CASE v.t \in {"int", "int8", "int16", "int32"} -> Int64(v.v)
      [] v.t = "int64" -> v
      [] v.t \in {"uint8", "uint16", "uint32"} -> Uint64(v.v)
      [] v.t = "uint64" -> v
      [] v.t = "float32" -> Float64(Widen32(v.v))
      [] v.t = "float64" -> v
      [] v.t = "string" -> v
      [] OTHER -> v

\* float64 -> int64 / uint64.  Go leaves the result of converting a value
\* the target cannot represent to the implementation; no expression of the
\* model converts such a value, and the conversions are defined on the
\* representable ones only.
FloatToInt64(f) ==
    CASE f[2] # 0 /\ IsExact(f) /\ FTrunc(f) >= MinInt64 /\ FTrunc(f) <= MaxInt64 -> FTrunc(f)
FloatToUint64(f) ==
    CASE f[2] # 0 /\ IsExact(f) /\ FTrunc(f) >= 0 /\ FTrunc(f) <= MaxUint64 -> FTrunc(f)

intCast(v) ==
    IF IsNil(v) THEN Int64(0)
    ELSE LET rv == normalize(v) IN
         CASE rv.t = "int64" -> rv
           [] rv.t = "uint64" -> Int64(ToInt64(rv.v))
           [] rv.t = "float64" -> Int64(FloatToInt64(rv.v))
           [] rv.t = "bool" -> Int64(IF rv.v THEN 1 ELSE 0)
           [] OTHER -> Panic("error", "not castable to an int64")

uintCast(v) ==
    IF IsNil(v) THEN Uint64(0)
    ELSE LET rv == normalize(v) IN
         CASE rv.t = "int64" -> Uint64(ToUint64(rv.v))
           [] rv.t = "uint64" -> rv
           [] rv.t = "float64" -> Uint64(FloatToUint64(rv.v))
           [] rv.t = "bool" -> Uint64(IF rv.v THEN 1 ELSE 0)
           [] OTHER -> Panic("error", "not castable to an uint64")

floatCast(v) ==
    IF IsNil(v) THEN Float64(<<0, 1>>)
    ELSE LET rv == normalize(v) IN
         CASE rv.t = "int64" -> Float64(<<rv.v, 1>>)
           [] rv.t = "uint64" -> Float64(<<rv.v, 1>>)
           [] rv.t = "float64" -> rv
           [] rv.t = "bool" -> Float64(IF rv.v THEN <<1, 1>> ELSE <<0, 1>>)
           [] OTHER -> Panic("error", "not castable to a float64")

boolCast(v) ==
    IF IsNil(v) THEN GoBool(FALSE)
    ELSE LET rv == normalize(v) IN
         CASE rv.t = "bool" -> rv
           [] rv.t = "string" -> GoBool(rv.v # "")
           [] rv.t = "int64" -> GoBool(rv.v # 0)
           [] rv.t = "uint64" -> GoBool(rv.v # 0)
           [] rv.t = "float64" -> GoBool(~FEq(rv.v, <<0, 1>>))
           [] OTHER -> Panic("error", "unsupported boolean value")

RECURSIVE Log2(_)
Log2(d) == IF d = 1 THEN 0 ELSE 1 + Log2(d \div 2)

RECURSIVE Zeros(_)
Zeros(n) == IF n <= 0 THEN "" ELSE "0" \o Zeros(n - 1)

RECURSIVE TrimZeros(_, _)
\* m / 10^scale with the trailing zeros of m removed.
TrimZeros(m, scale) ==
    IF m % 10 = 0 THEN TrimZeros(m \div 10, scale - 1) ELSE <<m, scale>>

\* The decimal expansion <<m, scale>> of a finite non-zero exact float,
\* |f| = m / 10^scale with m not a multiple of ten: n/2^k is n*5^k/10^k.
\* With no more than fifteen digits, the digits of m are also the shortest
\* decimal that reads back as f.
FloatDecimal(f) == TrimZeros(Abs(f[1]) * Pow(5, Log2(f[2])), Log2(f[2]))

\* The %e form: d.ddde+XX, the exponent with at least two digits.
FmtE(digs, dp) ==
    LET exp == dp - 1 IN
    CharAt(digs, 1)
      \o (IF Len(digs) > 1 THEN "." \o SubSeq(digs, 2, Len(digs)) ELSE "")
      \o "e" \o (IF exp < 0 THEN "-" ELSE "+")
      \o (IF Abs(exp) < 10 THEN "0" ELSE "") \o DigitsOf(Abs(exp))

\* The %f form with as many decimals as the digits need.
FmtF(digs, dp) ==
    (IF dp <= 0 THEN "0"
     ELSE IF dp >= Len(digs) THEN digs \o Zeros(dp - Len(digs))
     ELSE SubSeq(digs, 1, dp))
      \o (IF Len(digs) > dp
          THEN "." \o Zeros(-dp) \o SubSeq(digs, (IF dp > 0 THEN dp ELSE 0) + 1, Len(digs))
          ELSE "")

\* strconv's 'g' format of the digits digs with the decimal point at dp
\* (the value is 0.digs * 10^dp), for the shortest digits: the %e form when
\* the decimal exponent is below -4 or at least 6, the %f form otherwise.
FormatDigits(neg, digs, dp) ==
    (IF neg THEN "-" ELSE "")
      \o (IF dp - 1 < -4 \/ dp - 1 >= 6 THEN FmtE(digs, dp) ELSE FmtF(digs, dp))

FormatDecimal(neg, digs, scale) == FormatDigits(neg, digs, Len(digs) - scale)

\* fmt's %v of a float64.  Defined on the exact floats.
FormatFloat(f) ==
    CASE f = <<1, 0>> -> "+Inf"
      [] f = <<-1, 0>> -> "-Inf"
      [] f = <<0, 0>> -> "NaN"
      [] IsZero(f) -> IF Signbit(f) THEN "-0" ELSE "0"
      [] f[1] # 0 /\ f[2] > 0 /\ IsPow2(f[2]) ->
           FormatDecimal(f[1] < 0, DigitsOf(FloatDecimal(f)[1]), FloatDecimal(f)[2])

\* fmt's %v of a float32: the shortest digits that read back as the same
\* float32, which are the digits of the exact value when there are no more
\* than seven of them.  Defined on the exact float32s.
FormatFloat32(f) ==
    CASE f[2] = 0 \/ IsZero(f)
         \/ (f[2] > 0 /\ IsExact32(f) /\ FloatDecimal(f)[1] < 10000000) ->
           FormatFloat(f)

RECURSIVE Sprintf_v(_)
RECURSIVE FormatEntries(_, _)
\* The entries of a map in fmt's order (sorted by key), separated by spaces.
FormatEntries(m, keys) ==
    IF keys = {} THEN ""
    ELSE LET k == CHOOSE x \in keys : \A y \in keys \ {x} : StrLess(x, y)
             rest == keys \ {k}
         IN  k \o ":" \o Sprintf_v(m[k])
               \o (IF rest = {} THEN "" ELSE " " \o FormatEntries(m, rest))

\* fmt.Sprintf("%v", v) for a non-nil v.
Sprintf_v(v) ==
    CASE v.t = "bool" -> IF v.v THEN "true" ELSE "false"
      [] v.t \in {"int", "int8", "int16", "int32", "int64",
                  "uint", "uint8", "uint16", "uint32", "uint64"} -> Itoa(v.v)
      [] v.t = "float32" -> FormatFloat32(v.v)
      [] v.t = "float64" -> FormatFloat(v.v)
      [] v.t = "string" -> v.v
      [] v.t = "V" -> "map[" \o FormatEntries(v.v, DOMAIN v.v) \o "]"
      [] v.t = "nil" -> "<nil>"

stringCast(v) == IF IsNil(v) THEN "" ELSE Sprintf_v(v)

(***************************************************************************)
(* Literals.  Each parser returns [ok |-> TRUE, v |-> value] or            *)
(* [ok |-> FALSE, err |-> message].                                        *)
(***************************************************************************)
\* The character an escape sequence \c stands for, for the escapes whose
\* character a TLA+ string can hold.
EscapeChars == {"n", "r", "t", "f", "\\", "\""}
Unescape(c) ==
    CASE c = "n" -> "\n"
      [] c = "r" -> "\r"
      [] c = "t" -> "\t"
      [] c = "f" -> "\f"
      [] c = "\\" -> "\\"
      [] c = "\"" -> "\""

RECURSIVE WellEscaped(_)
\* The body of a double-quoted literal: printable characters, no bare
\* quote, and every backslash followed by one of EscapeChars.
WellEscaped(s) ==
    IF Len(s) = 0 THEN TRUE
    ELSE IF CharAt(s, 1) = "\\"
    THEN Len(s) >= 2 /\ CharAt(s, 2) \in EscapeChars /\ WellEscaped(SubSeq(s, 3, Len(s)))
    ELSE CharAt(s, 1) # "\"" /\ Code(CharAt(s, 1)) >= Code(" ")
         /\ WellEscaped(SubSeq(s, 2, Len(s)))

RECURSIVE Unescaped(_)
Unescaped(s) ==
    IF Len(s) = 0 THEN ""
    ELSE IF CharAt(s, 1) = "\\"
    THEN Unescape(CharAt(s, 2)) \o Unescaped(SubSeq(s, 3, Len(s)))
    ELSE CharAt(s, 1) \o Unescaped(SubSeq(s, 2, Len(s)))

\* strconv.Unquote of a double-quoted token.  A token shorter than two
\* characters, or whose last character is not its opening quote, is a
\* syntax error; the body is decoded escape by escape.  Raw strings and the
\* numeric and \a \b \v escapes are outside the definition.
Unquote(tok) ==
    CASE Len(tok) < 2 -> [ok |-> FALSE, err |-> "invalid syntax"]
      [] Len(tok) >= 2 /\ CharAt(tok, 1) = "\"" /\ CharAt(tok, Len(tok)) # "\"" ->
           [ok |-> FALSE, err |-> "invalid syntax"]
      [] Len(tok) >= 2 /\ CharAt(tok, 1) = "\"" /\ CharAt(tok, Len(tok)) = "\""
         /\ WellEscaped(SubSeq(tok, 2, Len(tok) - 1)) ->
           [ok |-> TRUE, v |-> Unescaped(SubSeq(tok, 2, Len(tok) - 1))]

\* strconv.ParseInt(tok, 10, 64) of an unsigned token: base-10 digits only,
\* and a value that fits the signed word.
ParseInt(tok) ==
    IF Len(tok) = 0 \/ ~AllDigits(tok)
    THEN [ok |-> FALSE, err |-> "strconv.ParseInt: parsing \"" \o tok \o "\": invalid syntax"]
    ELSE IF DigitsValue(tok) > MaxInt64
    THEN [ok |-> FALSE, err |-> "strconv.ParseInt: parsing \"" \o tok \o "\": value out of range"]
    ELSE [ok |-> TRUE, v |-> DigitsValue(tok)]

\* Largest decimal exponent of a finite float64.
MaxFloatExp10 == 308

\* Position of the exponent marker, e or E, of a decimal literal; 0 if none.
ExpPos(tok) ==
    LET a == IndexOf(tok, "e")
        b == IndexOf(tok, "E")
    IN  IF a = 0 THEN b ELSE IF b = 0 THEN a ELSE IF a < b THEN a ELSE b

\* The parts of a decimal floating-point token
\* digits [. digits] [(e|E) [+|-] digits] with its exponent marker at e and
\* its point at dot (0 when absent): the digits before and after the
\* point, and the sign and the digits of the exponent.
SplitFloat(tok, e, dot) ==
    [ip |-> SubSeq(tok, 1, IF dot # 0 THEN dot - 1 ELSE IF e # 0 THEN e - 1 ELSE Len(tok)),
     fp |-> IF dot = 0 THEN "" ELSE SubSeq(tok, dot + 1, IF e # 0 THEN e - 1 ELSE Len(tok)),
     neg |-> e # 0 /\ e < Len(tok) /\ CharAt(tok, e + 1) = "-",
     xd |-> IF e = 0 THEN ""
            ELSE SubSeq(tok, IF e < Len(tok) /\ CharAt(tok, e + 1) \in {"+", "-"}
                             THEN e + 2 ELSE e + 1, Len(tok)),
     point |-> dot # 0,
     exp |-> e # 0]

\* A point or an exponent, at least one mantissa digit, and digits only.
WellFormedFloat(p) ==
    /\ p.point \/ p.exp
    /\ Len(p.ip) + Len(p.fp) > 0
    /\ AllDigits(p.ip \o p.fp \o p.xd)
    /\ p.exp => Len(p.xd) > 0

\* The float64 nearest to m * 10^x, or a range error when it is too large.
\* The exponent of the value in scientific notation is x plus the number of
\* digits of m less one: the value overflows when that exceeds
\* MaxFloatExp10 and is a normal float64 when it lies strictly between
\* -MaxFloatExp10 and MaxFloatExp10.
FloatOfDecimal(tok, m, x) ==
    CASE m = 0 -> [ok |-> TRUE, v |-> <<0, 1>>]
      [] m # 0 /\ Len(DigitsOf(m)) - 1 + x > MaxFloatExp10 ->
           [ok |-> FALSE,
            err |-> "strconv.ParseFloat: parsing \"" \o tok \o "\": value out of range"]
      [] m # 0 /\ Len(DigitsOf(m)) - 1 + x < MaxFloatExp10
         /\ Len(DigitsOf(m)) - 1 + x > -MaxFloatExp10 ->
           [ok |-> TRUE,
            v |-> IF x >= 0 THEN Rat(m * Pow(10, x), 1) ELSE Rat(m, Pow(10, -x))]

FloatOfParts(tok, p) ==
    CASE WellFormedFloat(p) ->
         FloatOfDecimal(tok, DigitsValue(p.ip \o p.fp),
                        (IF p.neg THEN -DigitsValue(p.xd) ELSE DigitsValue(p.xd)) - Len(p.fp))

\* strconv.ParseFloat(tok, 64) of a decimal floating-point token.  The
\* tokens at the two edges of the float64 range, hexadecimal mantissas and
\* digit separators are outside the definition.
ParseFloat(tok) == FloatOfParts(tok, SplitFloat(tok, ExpPos(tok), IndexOf(tok, ".")))

(***************************************************************************)
(* The syntax tree (go/ast).                                               *)
(***************************************************************************)
Ident(name) == [node |-> "Ident", Name |-> name]
BasicLit(kind, tok) == [node |-> "BasicLit", Kind |-> kind, Value |-> tok]
BinaryExpr(x, op, y) == [node |-> "BinaryExpr", X |-> x, Op |-> op, Y |-> y]
UnaryExpr(op, x) == [node |-> "UnaryExpr", Op |-> op, X |-> x]
ParenExpr(x) == [node |-> "ParenExpr", X |-> x]
SelectorExpr(x, sel) == [node |-> "SelectorExpr", X |-> x, Sel |-> Ident(sel)]
IndexExpr(x, i) == [node |-> "IndexExpr", X |-> x, Index |-> i]

\* Every operator the parser puts in a BinaryExpr.
BinaryOps ==
    {"||", "&&", "==", "!=", "<", "<=", ">", ">=",
     "+", "-", "|", "^", "*", "/", "%", "<<", ">>", "&", "&^"}

(***************************************************************************)
(* eval.  The result is the value returned, or the Panic raised.           *)
(***************************************************************************)
\* case int64 of the operand type switch.
evalInt64(op, l, rr) ==
    LET rc == intCast(rr) IN
    IF IsPanic(rc) THEN rc ELSE
    LET r == rc.v IN
    CASE op = "==" -> GoBool(l = r)
      [] op = "!=" -> GoBool(l # r)
      [] op = "<" -> GoBool(l < r)
      [] op = ">" -> GoBool(l > r)
      [] op = "<=" -> GoBool(l <= r)
      [] op = ">=" -> GoBool(l >= r)
      [] op = "+" -> Int64(ToInt64(l + r))
      [] op = "-" -> Int64(ToInt64(l - r))
      [] op = "*" -> Int64(ToInt64(l * r))
      [] op = "/" -> IF r = 0 THEN Panic("error", "runtime error: integer divide by zero")
                     ELSE Int64(ToInt64(Quo(l, r)))
      [] op = "%" -> IF r = 0 THEN Panic("error", "runtime error: integer divide by zero")
                     ELSE Int64(ToInt64(Rem(l, r)))
      [] op = "<<" -> IF r < 0 THEN Panic("error", "negative shift count")
                      ELSE Int64(ToInt64(Shl(l, r)))
      [] op = ">>" -> IF r < 0 THEN Panic("error", "negative shift count")
                      ELSE Int64(Shr(l, r))
      [] op \in {"&", "|", "^", "&^"} -> Int64(ToInt64(BitOp(op, l, r)))

\* case uint64 of the operand type switch.
evalUint64(op, l, rr) ==
    LET rc == uintCast(rr) IN
    IF IsPanic(rc) THEN rc ELSE
    LET r == rc.v IN
    CASE op = "==" -> GoBool(l = r)
      [] op = "!=" -> GoBool(l # r)
      [] op = "<" -> GoBool(l < r)
      [] op = ">" -> GoBool(l > r)
      [] op = "<=" -> GoBool(l <= r)
      [] op = ">=" -> GoBool(l >= r)
      [] op = "+" -> Uint64(ToUint64(l + r))
      [] op = "-" -> Uint64(ToUint64(l - r))
      [] op = "*" -> Uint64(ToUint64(l * r))
      [] op = "/" -> IF r = 0 THEN Panic("error", "runtime error: integer divide by zero")
                     ELSE Uint64(l \div r)
      [] op = "%" -> IF r = 0 THEN Panic("error", "runtime error: integer divide by zero")
                     ELSE Uint64(l % r)
      [] op = "<<" -> Uint64(ToUint64(Shl(l, r)))
      [] op = ">>" -> Uint64(Shr(l, r))
      [] op \in {"&", "|", "^", "&^"} -> Uint64(BitOp(op, l, r))

\* A mutation of the string case: the right operand must already be a
\* string, as in a strictly typed evaluator.
evalString_strict(op, l, rr) ==
    IF rr.t # "string" THEN Panic("error", "not castable to a string") ELSE
    LET r == rr.v IN
    CASE op = "+" -> Str(l \o r)
      [] op = "==" -> GoBool(l = r)
      [] op = "!=" -> GoBool(l # r)
      [] op = "<" -> GoBool(StrLess(l, r))
      [] op = ">" -> GoBool(StrLess(r, l))
      [] op = "<=" -> GoBool(~StrLess(r, l))
      [] op = ">=" -> GoBool(~StrLess(l, r))
      [] OTHER -> Panic("error", "unsupported expression")

\* case string of the operand type switch; an operator outside its inner
\* switch reaches the panic that closes the BinaryExpr case.
evalString(op, l, rr) ==
    LET r == stringCast(rr) IN
    CASE op = "+" -> Str(l \o r)
      [] op = "==" -> GoBool(l = r)
      [] op = "!=" -> GoBool(l # r)
      [] op = "<" -> GoBool(StrLess(l, r))
      [] op = ">" -> GoBool(StrLess(r, l))
      [] op = "<=" -> GoBool(~StrLess(r, l))
      [] op = ">=" -> GoBool(~StrLess(l, r))
      [] OTHER -> Panic("error", "unsupported expression")

\* case float64 of the operand type switch.
evalFloat64(op, l, rr) ==
    LET rc == floatCast(rr) IN
    IF IsPanic(rc) THEN rc ELSE
    LET r == rc.v IN
    CASE op = "+" -> Float64(FAdd(l, r))
      [] op = "-" -> Float64(FSub(l, r))
      [] op = "*" -> Float64(FMul(l, r))
      [] op = "/" -> Float64(FQuo(l, r))
      [] op = "==" -> GoBool(FEq(l, r))
      [] op = "!=" -> GoBool(~FEq(l, r))
      [] op = "<" -> GoBool(FLess(l, r))
      [] op = ">" -> GoBool(FLess(r, l))
      [] op = "<=" -> GoBool(FLess(l, r) \/ FEq(l, r))
      [] op = ">=" -> GoBool(FLess(r, l) \/ FEq(l, r))
      [] OTHER -> Panic("error", "unsupported expression")

\* A mutation of the nil-operand handling: a nil left operand is cast like
\* a nil right operand (to the zero of the int64 family) instead of being
\* answered with nil.
evalOperands_nil_as_zero(op, ll, rr) ==
    IF IsNil(ll) /\ op = "==" THEN GoBool(IsNil(rr))
    ELSE IF IsNil(ll) /\ op = "!=" THEN GoBool(~IsNil(rr))
    ELSE IF IsNil(rr) /\ op = "==" THEN GoBool(IsNil(ll))
    ELSE IF IsNil(rr) /\ op = "!=" THEN GoBool(~IsNil(ll))
    ELSE CASE ll.t = "int64" -> evalInt64(op, ll.v, rr)
           [] ll.t = "uint64" -> evalUint64(op, ll.v, rr)
           [] ll.t = "string" -> evalString(op, ll.v, rr)
           [] ll.t = "float64" -> evalFloat64(op, ll.v, rr)
           [] ll.t = "nil" -> evalInt64(op, 0, rr)
           [] ll.t = "V" -> ll
           [] OTHER -> Panic("error", "unsupported type")

\* A mutation of the nil-operand handling: the check of a nil right operand
\* is missing, and nil is cast to the zero of the left operand's family.
evalOperands_no_right_nil(op, ll, rr) ==
    IF IsNil(ll) /\ op = "==" THEN GoBool(IsNil(rr))
    ELSE IF IsNil(ll) /\ op = "!=" THEN GoBool(~IsNil(rr))
    ELSE CASE ll.t = "int64" -> evalInt64(op, ll.v, rr)
           [] ll.t = "uint64" -> evalUint64(op, ll.v, rr)
           [] ll.t = "string" -> evalString(op, ll.v, rr)
           [] ll.t = "float64" -> evalFloat64(op, ll.v, rr)
           [] ll.t = "nil" -> Nil
           [] ll.t = "V" -> ll
           [] OTHER -> Panic("error", "unsupported type")

\* The BinaryExpr case once both operands are evaluated and normalized: the
\* nil-operand handling, then the switch on the left operand's type (the
\* second normalize of rr changes nothing).
evalOperands(op, ll, rr) ==
    IF IsNil(ll) /\ op = "==" THEN GoBool(IsNil(rr))
    ELSE IF IsNil(ll) /\ op = "!=" THEN GoBool(~IsNil(rr))
    ELSE IF IsNil(rr) /\ op = "==" THEN GoBool(IsNil(ll))
    ELSE IF IsNil(rr) /\ op = "!=" THEN GoBool(~IsNil(ll))
    ELSE CASE ll.t = "int64" -> evalInt64(op, ll.v, rr)
           [] ll.t = "uint64" -> evalUint64(op, ll.v, rr)
           [] ll.t = "string" -> evalString(op, ll.v, rr)
           [] ll.t = "float64" -> evalFloat64(op, ll.v, rr)
           [] ll.t = "nil" -> Nil
           [] ll.t = "V" -> ll
           [] OTHER -> Panic("error", "unsupported type")

RECURSIVE eval(_, _)

\* A mutation of the && and || cases: the right operand is evaluated before
\* the left operand's truthiness is looked at.
evalLogical_eager(value, op, ll, y) ==
    LET bl == boolCast(ll)
        ry == eval(value, y)
    IN  IF IsPanic(bl) THEN bl
        ELSE IF IsPanic(ry) THEN ry
        ELSE LET br == boolCast(ry) IN
             IF IsPanic(br) THEN br
             ELSE IF op = "&&" THEN GoBool(bl.v /\ br.v) ELSE GoBool(bl.v \/ br.v)

\* case token.LAND / token.LOR: Go's && and || evaluate their right-hand
\* side, here boolCast(eval(value, n.Y)), only when the left-hand side does
\* not decide the result.
evalLogical(value, op, ll, y) ==
    LET bl == boolCast(ll) IN
    IF IsPanic(bl) THEN bl
    ELSE IF op = "&&" /\ ~bl.v THEN GoBool(FALSE)
    ELSE IF op = "||" /\ bl.v THEN GoBool(TRUE)
    ELSE LET ry == eval(value, y) IN
         IF IsPanic(ry) THEN ry ELSE boolCast(ry)

\* if l, ok := ll.(bool); ok { ... }: only == and != against the
\* truthiness of the right operand.
evalBoolLeft(value, op, l, y) ==
    IF op \in {"==", "!="}
    THEN LET ry == eval(value, y) IN
         IF IsPanic(ry) THEN ry
         ELSE LET r == boolCast(ry) IN
              IF IsPanic(r) THEN r
              ELSE IF op = "==" THEN GoBool(l = r.v) ELSE GoBool(l # r.v)
    ELSE Panic("error", "unsupported boolean operation")

\* case *ast.BinaryExpr.
evalBinaryExpr(value, n) ==
    LET x == eval(value, n.X) IN
    IF IsPanic(x) THEN x ELSE
    LET ll == normalize(x) IN
    IF n.Op \in {"&&", "||"} THEN evalLogical(value, n.Op, ll, n.Y)
    ELSE IF ll.t = "bool" THEN evalBoolLeft(value, n.Op, ll.v, n.Y)
    ELSE LET ry == eval(value, n.Y) IN
         IF IsPanic(ry) THEN ry
         ELSE evalOperands(n.Op, ll, normalize(ry))

\* case *ast.BasicLit: a literal that does not parse panics with the
\* error's text, a string.
evalBasicLit(n) ==
    CASE n.Kind = "STRING" ->
           LET r == Unquote(n.Value) IN
           IF r.ok THEN Str(r.v) ELSE Panic("string", r.err)
      [] n.Kind = "INT" ->
           LET r == ParseInt(n.Value) IN
           IF r.ok THEN Int64(r.v) ELSE Panic("string", r.err)
      [] n.Kind = "FLOAT" ->
           LET r == ParseFloat(n.Value) IN
           IF r.ok THEN Float64(r.v) ELSE Panic("string", r.err)
      [] OTHER -> Panic("error", "unsupported type")

\* case *ast.UnaryExpr.
evalUnaryExpr(value, n) ==
    IF n.Op = "!"
    THEN LET x == eval(value, n.X) IN
         IF IsPanic(x) THEN x
         ELSE LET b == boolCast(x) IN
              IF IsPanic(b) THEN b ELSE GoBool(~b.v)
    ELSE Panic("error", "unsupported unary operator " \o n.Op)

\* case *ast.Ident.
evalIdent(value, n) ==
    IF n.Name \in DOMAIN value THEN normalize(value[n.Name])
    ELSE IF n.Name = "true" THEN GoBool(TRUE)
    ELSE IF n.Name = "false" THEN GoBool(FALSE)
    ELSE Nil

\* case *ast.SelectorExpr: the entry is returned as stored, not normalized.
evalSelectorExpr(value, n) ==
    LET v == eval(value, n.X) IN
    IF IsPanic(v) THEN v
    ELSE IF v.t = "V" /\ n.Sel.Name \in DOMAIN v.v THEN v.v[n.Sel.Name]
    ELSE Panic("error", "unknown attribute \"" \o n.Sel.Name \o "\"")

eval(value, n) ==
    CASE n.node = "BinaryExpr" -> evalBinaryExpr(value, n)
      [] n.node = "BasicLit" -> evalBasicLit(n)
      [] n.node = "ParenExpr" -> eval(value, n.X)
      [] n.node = "UnaryExpr" -> evalUnaryExpr(value, n)
      [] n.node = "Ident" -> evalIdent(value, n)
      [] n.node = "SelectorExpr" -> evalSelectorExpr(value, n)
      [] OTHER -> Panic("error", "unsupported expression node")

(***************************************************************************)
(* Expression and its methods.                                             *)
(***************************************************************************)
NoAST == [node |-> "nil"]
Expression(text, tree, terms) == [Expr |-> text, ast |-> tree, Terms |-> terms]

RECURSIVE index(_, _)
\* A mutation of index: the operand of a unary operator is indexed too.
index_into_unary(n, out) ==
    CASE n.node = "BinaryExpr" -> index(n.Y, index(n.X, out))
      [] n.node = "ParenExpr" -> index(n.X, out)
      [] n.node = "UnaryExpr" -> index(n.X, out)
      [] n.node = "Ident" ->
           IF n.Name # "nil" /\ n.Name # "true" /\ n.Name # "false"
           THEN Append(out, n.Name) ELSE out
      [] OTHER -> out

\* index(expr, out): the value of *out afterwards.
index(n, out) ==
    CASE n.node = "BinaryExpr" -> index(n.Y, index(n.X, out))
      [] n.node = "ParenExpr" -> index(n.X, out)
      [] n.node = "Ident" ->
           IF n.Name # "nil" /\ n.Name # "true" /\ n.Name # "false"
           THEN Append(out, n.Name) ELSE out
      [] OTHER -> out

NoError == "<nil>"

\* parser.ParseExpr(text): the tree, or the syntax error, that the source
\* carries as the parser's answer for its text.
ParseExpr(src) == src.parse

\* A mutation of compile: the empty source is handed to the parser like any
\* other.
compile_parse_empty(e, src) ==
    LET r == ParseExpr(src) IN
    IF ~r.ok THEN [e |-> e, err |-> r.err]
    ELSE [e |-> Expression(e.Expr, r.tree, index(r.tree, e.Terms)),
          err |-> NoError]

\* (*Expression).compile: the receiver afterwards, and the error returned.
compile(e, src) ==
    IF e.Expr = "" THEN [e |-> e, err |-> NoError]
    ELSE LET r == ParseExpr(src) IN
         IF ~r.ok THEN [e |-> e, err |-> r.err]
         ELSE [e |-> Expression(e.Expr, r.tree, index(r.tree, e.Terms)),
               err |-> NoError]

NoExpr == [Expr |-> "<nil>"]

\* Compile(expr): (e, nil), or (nil, err).
Compile(src) ==
    LET c == compile(Expression(src.text, NoAST, <<>>), src) IN
    IF c.err # NoError THEN [e |-> NoExpr, err |-> c.err]
    ELSE [e |-> c.e, err |-> NoError]

\* What a call did: it returned v (and err), or it let a panic escape.
Returned(v, err) == [panic |-> FALSE, v |-> v, err |-> err]
Panicked(msg) == [panic |-> TRUE, v |-> Nil, err |-> msg]

\* The deferred function of Eval, applied to the outcome v of eval: it
\* asserts that a recovered value is an error; for a string the assertion
\* itself panics, and that panic leaves Eval.
EvalRecover(v) ==
    IF ~IsPanic(v) THEN Returned(v, NoError)
    ELSE IF v.v.dyn = "error" THEN Returned(Nil, v.v.msg)
    ELSE Panicked("interface conversion: string is not error: missing method Error")

\* (*Expression).Eval.
Eval(e, value) ==
    IF e.Expr = "" THEN Returned(Str(""), NoError)
    ELSE EvalRecover(eval(value, e.ast))

\* return boolCast(v): the cast b is returned, or its panic leaves Bool.
BoolReturn(b) == IF IsPanic(b) THEN Panicked(b.v.msg) ELSE Returned(b, NoError)

\* Bool after its call of Eval came back with r: false for an error, and
\* boolCast of the value otherwise, outside any recover.
BoolOfEval(r) ==
    IF r.panic THEN r
    ELSE IF r.err # NoError THEN Returned(GoBool(FALSE), NoError)
    ELSE BoolReturn(boolCast(r.v))

\* (*Expression).Bool.
Bool(e, value) ==
    IF e.Expr = "" THEN Returned(GoBool(TRUE), NoError)
    ELSE BoolOfEval(Eval(e, value))

(***************************************************************************)
(* Inputs: sources and environments.                                       *)
(***************************************************************************)
RECURSIVE Render(_)
\* The source text of a tree, as go/parser reads it back.
Render(n) ==
    CASE n.node = "Ident" -> n.Name
      [] n.node = "BasicLit" -> n.Value
      [] n.node = "BinaryExpr" -> Render(n.X) \o " " \o n.Op \o " " \o Render(n.Y)
      [] n.node = "UnaryExpr" -> n.Op \o Render(n.X)
      [] n.node = "ParenExpr" -> "(" \o Render(n.X) \o ")"
      [] n.node = "SelectorExpr" -> Render(n.X) \o "." \o n.Sel.Name
      [] n.node = "IndexExpr" -> Render(n.X) \o "[" \o Render(n.Index) \o "]"

Source(tree) == [text |-> Render(tree), parse |-> [ok |-> TRUE, tree |-> tree]]
BadSource(text, err) == [text |-> text, parse |-> [ok |-> FALSE, err |-> err]]
EmptySource == BadSource("", "1:1: expected operand, found 'EOF'")

IntLit(i) == BasicLit("INT", Itoa(i))
StrLit(s) == BasicLit("STRING", "\"" \o s \o "\"")
I == Ident("I")

\* Literals that the parser accepts and strconv rejects: a hexadecimal
\* integer, the first integer past the signed word, a float past float64.
HexLit == BasicLit("INT", "0x10")
TooBigLit == BasicLit("INT", Itoa(MaxInt64 + 1))
HugeFloatLit == BasicLit("FLOAT", "1e999")

LeftOperands ==
    {I, Ident("nil"), Ident("true"), IntLit(MaxLit), BasicLit("FLOAT", "0.5"),
     StrLit("foo"), StrLit("")}

RightOperands ==
    {I, Ident("nil"), Ident("false"), HexLit, BasicLit("FLOAT", "0.5"),
     StrLit("foo"), IndexExpr(I, IntLit(0)), SelectorExpr(I, "Bar")}
      \cup {IntLit(i) : i \in 0..MaxLit}

Atoms ==
    LeftOperands \cup RightOperands
      \cup {TooBigLit, HugeFloatLit, BasicLit("CHAR", "'a'"), Ident("false")}

\* The expressions of the tests and of the package documentation, and a few
\* deeper ones.
Examples ==
    LET a == Ident("a")
        b == Ident("b")
        c == Ident("c")
    IN  { BinaryExpr(BinaryExpr(a, "+", BinaryExpr(b, "*", c)), "+", c),
          BinaryExpr(BinaryExpr(IntLit(3), "+",
                         BinaryExpr(BinaryExpr(IntLit(4), "*", IntLit(2)), "/",
                                    ParenExpr(BinaryExpr(IntLit(1), "-", IntLit(5))))),
                     "+", IntLit(3)),
          BinaryExpr(BinaryExpr(I, "&", IntLit(2)), "==", IntLit(2)),
          BinaryExpr(BinaryExpr(I, "|", IntLit(4)), "==", IntLit(7)),
          BinaryExpr(I, "==", IntLit(5)),
          BinaryExpr(BinaryExpr(I, "==", IntLit(5)), "||", BinaryExpr(I, "==", IntLit(3))),
          BinaryExpr(Ident("true"), "||", Ident("false")),
          BinaryExpr(StrLit("foo"), "+", IntLit(10)),
          BinaryExpr(SelectorExpr(I, "Bar"), "==", StrLit("Waz")),
          BinaryExpr(SelectorExpr(I, "Bar"), "+", IntLit(1)),
          BinaryExpr(BinaryExpr(I, "+", IntLit(1)), ">", IntLit(2)),
          BinaryExpr(ParenExpr(BinaryExpr(I, "+", IntLit(2))), "*", IntLit(10)),
          UnaryExpr("!", ParenExpr(BinaryExpr(I, "==", Ident("nil")))),
          BinaryExpr(BinaryExpr(ParenExpr(BinaryExpr(a, "-", Ident("nil"))), "*",
                                UnaryExpr("!", b)),
                     "+", BinaryExpr(SelectorExpr(c, "d"), "*", Ident("true"))),
          BinaryExpr(ParenExpr(ParenExpr(a)), "&&", IndexExpr(b, c)),
          BinaryExpr(UnaryExpr("!", I), "&&", HugeFloatLit),
          BinaryExpr(I, "||", TooBigLit) }

Trees ==
    Atoms
      \cup {BinaryExpr(I, op, r) : op \in BinaryOps, r \in RightOperands}
      \cup {BinaryExpr(l, op, I) : op \in BinaryOps, l \in LeftOperands}
      \cup {UnaryExpr(op, x) : op \in {"!", "-"}, x \in Atoms}
      \cup {ParenExpr(x) : x \in Atoms}
      \cup Examples

Sources ==
    {Source(t) : t \in Trees}
      \cup {EmptySource, BadSource("I ==", "1:5: expected operand, found 'EOF'")}

\* Values bound in an environment: every Go type normalize names and uint,
\* strings, and maps for the selector.
Bindings ==
    { Nil, GoBool(TRUE), GoBool(FALSE),
      Val("int", 5), Val("int", 0), Val("int8", -1), Val("int16", 1),
      Val("int32", 2), Val("int64", MaxInt64),
      Val("uint", 5), Val("uint8", 0), Val("uint16", 1), Val("uint32", 2),
      Val("uint64", MaxUint64),
      Val("float32", <<1, 2>>), Val("float64", <<0, 1>>), Val("float64", <<2, 1>>),
      Str(""), Str("foo"), Str("1"),
      Val("V", <<>>), Val("V", [Bar |-> Str("Waz")]), Val("V", [Bar |-> Val("int", 3)]) }

\* An environment: a nil V, or a map; the name nil can be bound like any
\* other.
Env(isNil, kv) == [isNil |-> isNil, kv |-> kv]
Envs ==
    {Env(TRUE, <<>>), Env(FALSE, <<>>)}
      \cup {Env(FALSE, [I |-> v]) : v \in Bindings}
      \cup {Env(FALSE, [nil |-> Val("int", 1)])}
      \cup {Env(FALSE, [I |-> v, nil |-> Val("int", 1)]) : v \in {Nil, GoBool(FALSE), Val("int", 5)}}

(***************************************************************************)
(* The concurrent program.  Goroutines share one compiled Expression and   *)
(* the maps of a heap; each calls Eval and Bool, passing a map of the heap *)
(* as the environment.  A call is a sequence of steps: the entry of Bool,  *)
(* the entry of Eval, one step for every node eval visits, one for every   *)
(* return of eval into the frame that waits for it, and the return of the  *)
(* call, and the steps of the goroutines interleave.  A map value is the   *)
(* address of a map, as in Go, and its entries are read from the heap when *)
(* the code reads them.  Every step takes the memory, the Expression and   *)
(* the maps, and gives the memory it leaves behind.                        *)
(***************************************************************************)
\* Number of calls the goroutines begin, all together.
MaxSharedCalls == 3

\* Number of goroutines that call Eval and Bool concurrently.
NumGoroutines == 2
Goroutines == 1..NumGoroutines

\* A goroutine: where it is in its call (pc), the method called and the
\* environment passed, the node eval is about to evaluate or the value eval
\* has just returned, and the frames of eval waiting for that value
\* (innermost first).
Idle ==
    [pc |-> "idle", op |-> "none", env |-> 0, n |-> NoAST, v |-> Nil, stack |-> <<>>]

\* A value of type V: the map at address a of the heap.
MapAt(a) == Val("map", a)

\* The value as fmt, the casts and the caller see it: a map with the
\* entries it holds now.
Deref(maps, v) == IF v.t = "map" THEN Val("V", maps[v.v].kv) ELSE v

\* The bindings the map at address a holds, maps among them by their
\* entries.
Inline(maps, a) == [k \in DOMAIN maps[a].kv |-> Deref(maps, maps[a].kv[k])]

\* The memory the goroutines share: the Expression *e and the maps.
Memory(e, maps) == [e |-> e, maps |-> maps]

\* A frame of eval that waits for the value of a sub-expression: the place
\* of the call in the case (at), the node, and the left operand ll when it
\* is already evaluated.
Frame(at, n, ll) == [at |-> at, n |-> n, ll |-> ll]

\* Where a call stands after a step: about to evaluate node n, returning v to
\* the frame on top of the stack, or over with the result out; a panic
\* unwinds every frame of eval, none of which recovers.
Running(n, stack) == [pc |-> "eval", n |-> n, v |-> Nil, stack |-> stack]
Yield(v, stack) ==
    IF IsPanic(v) THEN [pc |-> "panic", n |-> NoAST, v |-> v, stack |-> <<>>]
    ELSE [pc |-> "ret", n |-> NoAST, v |-> v, stack |-> stack]
Done(out) == [pc |-> "done", out |-> out]

\* The outcome of a step: where the call stands, and the memory.
Then(ctl, mem) == [ctl |-> ctl, mem |-> mem]

\* A mutation of the Ident case: the normalized value is stored back in the
\* environment, to save the conversion next time.
loadIdent_memoize(mem, value, n) ==
    [v |-> evalIdent(mem.maps[value].kv, n),
     mem |-> IF n.Name \in DOMAIN mem.maps[value].kv
             THEN Memory(mem.e, [mem.maps EXCEPT ![value].kv[n.Name] = normalize(@)])
             ELSE mem]

\* case *ast.Ident, with the environment the map at address value: the
\* lookup value[n.Name] reads the map and writes nothing.
loadIdent(mem, value, n) ==
    [v |-> evalIdent(mem.maps[value].kv, n),
     mem |-> mem]

Loaded(r, stack) == Then(Yield(r.v, stack), r.mem)

\* eval(value, expr) from its entry to its first call of eval, or to its
\* return when it makes none.  return eval(value, n.X) of a ParenExpr leaves
\* nothing to do in the frame, which is not kept.
evalNode(mem, value, n, stack) ==
    CASE n.node = "BinaryExpr" ->
           Then(Running(n.X, <<Frame("X", n, Nil)>> \o stack), mem)
      [] n.node = "BasicLit" -> Then(Yield(evalBasicLit(n), stack), mem)
      [] n.node = "ParenExpr" -> Then(Running(n.X, stack), mem)
      [] n.node = "UnaryExpr" ->
           IF n.Op = "!"
           THEN Then(Running(n.X, <<Frame("not", n, Nil)>> \o stack), mem)
           ELSE Then(Yield(Panic("error", "unsupported unary operator " \o n.Op),
                           stack), mem)
      [] n.node = "Ident" -> Loaded(loadIdent(mem, value, n), stack)
      [] n.node = "SelectorExpr" ->
           Then(Running(n.X, <<Frame("sel", n, Nil)>> \o stack), mem)
      [] OTHER -> Then(Yield(Panic("error", "unsupported expression node"), stack), mem)

\* boolCast(ll) && ..., boolCast(ll) || ...: the right operand is evaluated
\* only when the left one does not decide.
logicalLeft(n, bl, stack) ==
    IF IsPanic(bl) THEN Yield(bl, stack)
    ELSE IF n.Op = "&&" /\ ~bl.v THEN Yield(GoBool(FALSE), stack)
    ELSE IF n.Op = "||" /\ bl.v THEN Yield(GoBool(TRUE), stack)
    ELSE Running(n.Y, <<Frame("logicalY", n, Nil)>> \o stack)

\* The BinaryExpr case from ll := normalize(eval(value, n.X)) to its call
\* of eval(value, n.Y).
binaryLeft(maps, n, ll, stack) ==
    IF n.Op \in {"&&", "||"} THEN logicalLeft(n, boolCast(Deref(maps, ll)), stack)
    ELSE IF ll.t = "bool"
    THEN IF n.Op \in {"==", "!="}
         THEN Running(n.Y, <<Frame("boolY", n, ll)>> \o stack)
         ELSE Yield(Panic("error", "unsupported boolean operation"), stack)
    ELSE Running(n.Y, <<Frame("Y", n, ll)>> \o stack)

\* r := boolCast(eval(value, n.Y)); return l == r (or l != r).
boolEqual(op, l, r) ==
    IF IsPanic(r) THEN r
    ELSE IF op = "==" THEN GoBool(l = r.v) ELSE GoBool(l # r.v)

\* return ll of a left operand that is a map: the map itself, not a copy of
\* its entries.
binaryResult(ll, r) == IF ll.t = "map" /\ ~IsPanic(r) /\ r.t = "V" THEN ll ELSE r

\* return !boolCast(eval(value, n.X)).
castNot(b) == IF IsPanic(b) THEN b ELSE GoBool(~b.v)

\* The SelectorExpr case after v := eval(value, n.X): the lookup in the map
\* v, whose entry is returned as stored.
selectAttr(maps, v, sel) ==
    IF v.t = "map" /\ sel \in DOMAIN maps[v.v].kv THEN maps[v.v].kv[sel]
    ELSE Panic("error", "unknown attribute \"" \o sel \o "\"")

\* eval continues in frame f with the value v its call of eval returned.
resumeFrame(maps, f, v, stack) ==
    CASE f.at = "X" -> binaryLeft(maps, f.n, normalize(v), stack)
      [] f.at = "logicalY" -> Yield(boolCast(Deref(maps, v)), stack)
      [] f.at = "boolY" ->
           Yield(boolEqual(f.n.Op, f.ll.v, boolCast(Deref(maps, v))), stack)
      [] f.at = "Y" ->
           Yield(binaryResult(f.ll, evalOperands(f.n.Op, Deref(maps, f.ll),
                                                 Deref(maps, normalize(v)))),
                 stack)
      [] f.at = "not" -> Yield(castNot(boolCast(Deref(maps, v))), stack)
      [] f.at = "sel" -> Yield(selectAttr(maps, v, f.n.Sel.Name), stack)

\* The goroutine gr when its call stands at ctl.
Moved(gr, ctl) ==
    [gr EXCEPT !.pc = ctl.pc, !.n = ctl.n, !.v = ctl.v, !.stack = ctl.stack]

\* What a call of method op gives its caller once Eval is left with r.
Outcome(op, r) == IF op = "Bool" THEN BoolOfEval(r) ELSE r

\* Bool up to its call of Eval.
enterBool(mem) ==
    IF mem.e.Expr = "" THEN Then(Done(Returned(GoBool(TRUE), NoError)), mem)
    ELSE Then([pc |-> "Eval", n |-> NoAST, v |-> Nil, stack |-> <<>>], mem)

\* Eval, called as or by method op, up to its call of eval(value, *e.ast).
enterEval(mem, op) ==
    IF mem.e.Expr = "" THEN Then(Done(Outcome(op, Returned(Str(""), NoError))), mem)
    ELSE Then(Running(mem.e.ast, <<>>), mem)

\* The return of Eval with the outcome v of eval, through its deferred
\* function, and the rest of Bool when Bool made the call.
returnStep(mem, op, v) ==
    Then(Done(Outcome(op, EvalRecover(Deref(mem.maps, v)))), mem)

\* The sources and the heaps of the concurrent program.
SharedTrees ==
    { I,
      BinaryExpr(SelectorExpr(I, "Bar"), "==", StrLit("Waz")),
      BinaryExpr(I, "+", StrLit("foo")),
      BinaryExpr(UnaryExpr("!", I), "&&", HugeFloatLit) }

SharedHeaps ==
    { <<Env(FALSE, [I |-> Val("int", 5)]), Env(TRUE, <<>>)>>,
      <<Env(FALSE, [I |-> MapAt(2)]),
        Env(FALSE, [Bar |-> Str("Waz"), I |-> Val("float32", <<1, 2>>)])>> }

(***************************************************************************)
(* The program: a caller compiles one source, builds one environment, and  *)
(* calls Eval and Bool on them, up to MaxCalls times.  envs, goroutines    *)
(* and finished are the heap, the callers and the calls that are over of   *)
(* the concurrent program, which this one leaves alone.                    *)
(***************************************************************************)
MaxCalls == 2

VARIABLES compiled, value, last, calls, envs, goroutines, finished
vars == <<compiled, value, last, calls, envs, goroutines, finished>>

NotCompiled == [src |-> "", e |-> NoExpr, err |-> NoError, panic |-> FALSE, done |-> FALSE]
NoEnv == [isNil |-> TRUE, kv |-> <<>>, unset |-> TRUE]
NoCall == [op |-> "none", out |-> Returned(Nil, NoError)]

Init ==
    /\ compiled = NotCompiled
    /\ value = NoEnv
    /\ last = NoCall
    /\ calls = 0
    /\ envs = <<>>
    /\ goroutines = [g \in Goroutines |-> Idle]
    /\ finished = {}

CallCompile ==
    /\ ~compiled.done
    /\ \E src \in Sources :
         LET c == Compile(src) IN
         compiled' = [src |-> src.text, e |-> c.e, err |-> c.err,
                      panic |-> FALSE, done |-> TRUE]
    /\ UNCHANGED <<value, last, calls, envs, goroutines, finished>>

\* MustCompile: Compile, and a panic on its error.
CallMustCompile ==
    /\ ~compiled.done
    /\ \E src \in Sources :
         LET c == Compile(src) IN
         compiled' = [src |-> src.text, e |-> c.e, err |-> c.err,
                      panic |-> c.err # NoError, done |-> TRUE]
    /\ UNCHANGED <<value, last, calls, envs, goroutines, finished>>

\* The caller builds the environment it will pass.
NewEnv ==
    /\ value = NoEnv
    /\ \E env \in Envs : value' = env
    /\ UNCHANGED <<compiled, last, calls, envs, goroutines, finished>>

\* A call is possible on a compiled expression, while the program runs.
CanCall ==
    /\ compiled.done /\ compiled.e # NoExpr
    /\ value # NoEnv
    /\ ~last.out.panic
    /\ calls < MaxCalls

CallEval ==
    /\ CanCall
    /\ last' = [op |-> "Eval", out |-> Eval(compiled.e, value.kv)]
    /\ calls' = calls + 1
    /\ UNCHANGED <<compiled, value, envs, goroutines, finished>>

CallBool ==
    /\ CanCall
    /\ last' = [op |-> "Bool", out |-> Bool(compiled.e, value.kv)]
    /\ calls' = calls + 1
    /\ UNCHANGED <<compiled, value, envs, goroutines, finished>>

Next ==
    \/ CallCompile
    \/ CallMustCompile
    \/ NewEnv
    \/ CallEval
    \/ CallBool

Spec == Init /\ [][Next]_vars

(***************************************************************************)
(* The concurrent program: its initial states and the steps of its         *)
(* goroutines.                                                             *)
(***************************************************************************)
\* The program after Compile succeeded and the maps are built.
InitShared ==
    /\ \E src \in {Source(t) : t \in SharedTrees} \cup {EmptySource} :
         compiled = [src |-> src.text, e |-> Compile(src).e, err |-> Compile(src).err,
                     panic |-> FALSE, done |-> TRUE]
    /\ envs \in SharedHeaps
    /\ goroutines = [g \in Goroutines |-> Idle]
    /\ finished = {}
    /\ value = NoEnv
    /\ last = NoCall
    /\ calls = 0

\* A panic left a call: the program is over.
Crashed == \E g \in Goroutines : goroutines[g].pc = "crashed"

\* A step of goroutine g, which is gr as the step begins: r is where its call
\* stands, and the memory, after the step.  When the step ends the call,
\* the call and its result join the finished ones, and the goroutine is
\* free for another call unless a panic left this one.
Step(g, gr, r) ==
    /\ goroutines' =
           [goroutines EXCEPT ![g] =
               IF r.ctl.pc # "done" THEN Moved(gr, r.ctl)
               ELSE [Idle EXCEPT !.pc = IF r.ctl.out.panic THEN "crashed" ELSE "idle"]]
    /\ finished' =
           IF r.ctl.pc # "done" THEN finished
           ELSE finished \cup {[op |-> gr.op, env |-> gr.env, out |-> r.ctl.out]}
    /\ compiled' = [compiled EXCEPT !.e = r.mem.e]
    /\ envs' = r.mem.maps
    /\ UNCHANGED <<value, last>>

\* Goroutine g calls e.Bool(value), value a map of the heap, and Bool runs
\* up to its call of Eval.
BeginBool(g) ==
    /\ ~Crashed
    /\ goroutines[g].pc = "idle"
    /\ calls < MaxSharedCalls
    /\ calls' = calls + 1
    /\ \E a \in DOMAIN envs :
         Step(g, [goroutines[g] EXCEPT !.op = "Bool", !.env = a],
              enterBool(Memory(compiled.e, envs)))

\* Goroutine g calls e.Eval(value), value a map of the heap, and Eval runs
\* up to its call of eval.
BeginEval(g) ==
    /\ ~Crashed
    /\ goroutines[g].pc = "idle"
    /\ calls < MaxSharedCalls
    /\ calls' = calls + 1
    /\ \E a \in DOMAIN envs :
         Step(g, [goroutines[g] EXCEPT !.op = "Eval", !.env = a],
              enterEval(Memory(compiled.e, envs), "Eval"))

\* Eval, called by Bool, runs up to its call of eval.
EnterEval(g) ==
    /\ ~Crashed
    /\ goroutines[g].pc = "Eval"
    /\ UNCHANGED calls
    /\ Step(g, goroutines[g], enterEval(Memory(compiled.e, envs), goroutines[g].op))

\* eval visits a node.
EvalNode(g) ==
    /\ ~Crashed
    /\ goroutines[g].pc = "eval"
    /\ UNCHANGED calls
    /\ Step(g, goroutines[g],
            evalNode(Memory(compiled.e, envs), goroutines[g].env, goroutines[g].n,
                     goroutines[g].stack))

\* eval returns into the frame of eval that called it.
Resume(g) ==
    /\ ~Crashed
    /\ goroutines[g].pc = "ret"
    /\ goroutines[g].stack # <<>>
    /\ UNCHANGED calls
    /\ Step(g, goroutines[g],
            Then(resumeFrame(envs, Head(goroutines[g].stack), goroutines[g].v,
                             Tail(goroutines[g].stack)),
                 Memory(compiled.e, envs)))

\* eval returns to Eval, or panics, and the call ends.
Return(g) ==
    /\ ~Crashed
    /\ \/ goroutines[g].pc = "ret" /\ goroutines[g].stack = <<>>
       \/ goroutines[g].pc = "panic"
    /\ UNCHANGED calls
    /\ Step(g, goroutines[g],
            returnStep(Memory(compiled.e, envs), goroutines[g].op, goroutines[g].v))

NextShared ==
    \E g \in Goroutines :
        \/ BeginBool(g)
        \/ BeginEval(g)
        \/ EnterEval(g)
        \/ EvalNode(g)
        \/ Resume(g)
        \/ Return(g)

SpecShared == InitShared /\ [][NextShared]_vars

(***************************************************************************)
(* Properties.                                                             *)
(***************************************************************************)
Expr == compiled.e
Tree == compiled.e.ast
Ready == compiled.done /\ compiled.e # NoExpr
IsBinary == Ready /\ Tree.node = "BinaryExpr"
Bound(name) == name \in DOMAIN value.kv
CompareOps == {"==", "!=", "<", ">", "<=", ">="}

\* The evaluation of the left and of the right operand of the compiled
\* binary expression, each taken alone.
LeftValue == eval(value.kv, Tree.X)
RightValue == eval(value.kv, Tree.Y)

\* C1: Bool returns true or false and never panics; it returns false
\* whenever the evaluation fails or its result has no truthiness.
C1_BoolNeverPanics ==
    last.op = "Bool" =>
        LET r == Eval(Expr, value.kv) IN
        /\ ~last.out.panic
        /\ last.out.v \in {GoBool(TRUE), GoBool(FALSE)}
        /\ (r.panic \/ r.err # NoError \/ IsPanic(boolCast(r.v)))
              => last.out.v = GoBool(FALSE)

\* C2: Eval never lets a panic escape: it returns a value and no error, or
\* no value and an error.
C2_EvalNeverPanics ==
    last.op = "Eval" =>
        /\ ~last.out.panic
        /\ last.out.err = NoError \/ IsNil(last.out.v)

\* C3 as stated: Bool of `I == nil` is true exactly when I is absent or
\* bound to nil, in every environment, and `I != nil` is its complement.
IsNullTest == IsBinary /\ Tree.X = I /\ Tree.Y = Ident("nil") /\ Tree.Op \in {"==", "!="}
INull == ~Bound("I") \/ IsNil(value.kv["I"])
C3_NullEqualityAsStated ==
    (last.op = "Bool" /\ IsNullTest) =>
        last.out = Returned(GoBool(IF Tree.Op = "==" THEN INull ELSE ~INull), NoError)

\* C3 amended: in an environment that does not bind the name nil, Bool of
\* `I == nil` is true exactly when I is absent, bound to nil or bound to
\* the boolean false, and Bool of `I != nil` is its complement.
IFalsy == INull \/ value.kv["I"] = GoBool(FALSE)
C3_NullEquality ==
    (last.op = "Bool" /\ IsNullTest /\ ~Bound("nil")) =>
        last.out = Returned(GoBool(IF Tree.Op = "==" THEN IFalsy ELSE ~IFalsy), NoError)

C3_Witness ==
    /\ last.op = "Bool" /\ IsNullTest /\ Tree.Op = "==" /\ ~Bound("nil")
    /\ Bound("I") /\ value.kv["I"] = GoBool(FALSE)
    /\ last.out = Returned(GoBool(TRUE), NoError)

\* C4: the empty source compiles to an expression without tree or terms;
\* its Bool is true and its Eval the empty string, in every environment.
C4_EmptySource ==
    (compiled.done /\ compiled.src = "") =>
        /\ compiled.err = NoError /\ ~compiled.panic
        /\ Expr = Expression("", NoAST, <<>>)
        /\ last.op = "Bool" => last.out = Returned(GoBool(TRUE), NoError)
        /\ last.op = "Eval" => last.out = Returned(Str(""), NoError)

C4_Witness ==
    /\ compiled.done /\ compiled.src = "" /\ value.isNil /\ value # NoEnv
    /\ last.op = "Eval" /\ calls = MaxCalls

\* C5: `x && y` is false when x is falsy and `x || y` is true when x is
\* truthy, whatever y is and even when evaluating y would fail; otherwise
\* the result is the and / or of the two truthiness values.
LeftDecides(b) == (Tree.Op = "&&" /\ ~b) \/ (Tree.Op = "||" /\ b)
C5_ShortCircuit ==
    (last.op = "Eval" /\ IsBinary /\ Tree.Op \in {"&&", "||"}
       /\ ~IsPanic(LeftValue) /\ ~IsPanic(boolCast(LeftValue))) =>
        LET bx == boolCast(LeftValue).v IN
        IF LeftDecides(bx)
        THEN last.out = Returned(GoBool(bx), NoError)
        ELSE (~IsPanic(RightValue) /\ ~IsPanic(boolCast(RightValue))) =>
               LET by == boolCast(RightValue).v IN
               last.out = Returned(GoBool(IF Tree.Op = "&&" THEN bx /\ by ELSE bx \/ by),
                                   NoError)

C5_Witness ==
    /\ last.op = "Eval" /\ IsBinary /\ Tree.Op = "&&"
    /\ ~IsPanic(LeftValue) /\ boolCast(LeftValue) = GoBool(FALSE)
    /\ IsPanic(RightValue)
    /\ last.out = Returned(GoBool(FALSE), NoError)

\* C6: Terms is the left-to-right sequence of the identifiers reached
\* through BinaryExpr and ParenExpr nodes only, duplicates kept, without
\* nil, true and false.
RECURSIVE Frontier(_)
Frontier(n) ==
    CASE n.node = "BinaryExpr" -> Frontier(n.X) \o Frontier(n.Y)
      [] n.node = "ParenExpr" -> Frontier(n.X)
      [] OTHER -> <<n>>
IsTerm(n) == n.node = "Ident" /\ n.Name \notin {"nil", "true", "false"}
ReachedNames(n) ==
    LET f == SelectSeq(Frontier(n), IsTerm) IN [i \in 1..Len(f) |-> f[i].Name]
C6_Terms ==
    (Ready /\ Tree # NoAST) =>
        /\ Expr.Terms = ReachedNames(Tree)
        /\ Expr.Expr = "a + b * c + c" => Expr.Terms = <<"a", "b", "c", "c">>
        /\ Expr.Expr \in {"!I", "I.Bar"} => Expr.Terms = <<>>

C6_Witness ==
    /\ Ready /\ Expr.Expr = "(a - nil) * !b + c.d * true"
    /\ Expr.Terms = <<"a">>

\* C7: normalize widens every signed integer to int64, every unsigned
\* integer to uint64 and every float to float64, keeping the value, and
\* leaves the other values alone; so a numeric binding on the left of an
\* arithmetic operator is computed in one of the three families.
Widened(v) ==
    CASE v.t \in {"int", "int8", "int16", "int32", "int64"} -> Int64(v.v)
      [] v.t \in {"uint", "uint8", "uint16", "uint32", "uint64"} -> Uint64(v.v)
      [] v.t \in {"float32", "float64"} -> Float64(v.v)
      [] OTHER -> v
IsNumeric(v) == Widened(v).t \in {"int64", "uint64", "float64"} /\ v.t \notin {"nil", "V"}
C7_Normalization ==
    (last.op = "Eval" /\ Ready /\ Bound("I")) =>
        /\ Tree = I => last.out = Returned(Widened(value.kv["I"]), NoError)
        /\ (Tree = BinaryExpr(I, "+", IntLit(1)) /\ IsNumeric(value.kv["I"]))
              => /\ last.out.err = NoError
                 /\ last.out.v.t = Widened(value.kv["I"]).t

\* The compiled expression is `x op y` with op neither && nor ||, both
\* operands evaluate, and the left one is a string once normalized.
StringLeft ==
    /\ IsBinary /\ Tree.Op \notin {"&&", "||"}
    /\ ~IsPanic(LeftValue) /\ normalize(LeftValue).t = "string"
    /\ ~IsPanic(RightValue)
StrCompare(op, l, r) ==
    CASE op = "==" -> l = r
      [] op = "!=" -> l # r
      [] op = "<" -> StrLess(l, r)
      [] op = ">" -> StrLess(r, l)
      [] op = "<=" -> StrLess(l, r) \/ l = r
      [] op = ">=" -> StrLess(r, l) \/ l = r
StringResult(l, r) ==
    IF Tree.Op = "+" THEN last.out = Returned(Str(l \o r), NoError)
    ELSE IF Tree.Op \in CompareOps
    THEN last.out = Returned(GoBool(StrCompare(Tree.Op, l, r)), NoError)
    ELSE ~last.out.panic /\ last.out.err # NoError /\ IsNil(last.out.v)

\* C8 as stated: with a string on the left the right operand is turned
\* into a string (nil into the empty one), + concatenates, the six
\* comparisons compare the two strings, and any other operator is an error.
C8_StringCoercionAsStated ==
    (last.op = "Eval" /\ StringLeft) =>
        StringResult(normalize(LeftValue).v, stringCast(normalize(RightValue)))

\* C8 amended: as stated, except that against a nil right operand == is
\* false and != is true, without any comparison of strings.
C8_StringCoercion ==
    (last.op = "Eval" /\ StringLeft) =>
        IF IsNil(normalize(RightValue)) /\ Tree.Op \in {"==", "!="}
        THEN last.out = Returned(GoBool(Tree.Op = "!="), NoError)
        ELSE StringResult(normalize(LeftValue).v, stringCast(normalize(RightValue)))

C8_Witness ==
    /\ last.op = "Eval" /\ StringLeft /\ Tree.Op = "+"
    /\ normalize(LeftValue) = Str("foo") /\ normalize(RightValue) = Int64(10)
    /\ last.out = Returned(Str("foo10"), NoError)

\* C9: under any interleaving of the goroutines' calls of Eval and Bool,
\* every step leaves the Expression as Compile produced it and every map of
\* the heap with the entries it held, whether the call goes on to succeed
\* or to fail; a call that finishes returns what the same call returns when
\* it runs alone, and two finished calls of the same method with the same
\* environment returned the same result.
SameOut(a, b) ==
    /\ a.panic = b.panic
    /\ a.err = b.err
    /\ a.v.t = b.v.t
    /\ a.v.v = b.v.v
Alone(h) ==
    IF h.op = "Eval" THEN Eval(compiled.e, Inline(envs, h.env))
    ELSE Bool(compiled.e, Inline(envs, h.env))
SameCall(h, k) == h.op = k.op /\ h.env = k.env
C9_NoSideEffects ==
    /\ [][\A h \in finished' \ finished : SameOut(h.out, Alone(h))]_vars
    /\ [](\A h, k \in finished : SameCall(h, k) => SameOut(h.out, k.out))
    /\ [][compiled' = compiled /\ envs' = envs]_vars

\* Two goroutines are inside eval at once, each with frames waiting, for
\* calls with the same environment, which binds the name I the expression
\* looks up, after a call of Eval with that environment finished with an
\* error.
C9_Witness ==
    /\ compiled.e.Terms = <<"I">>
    /\ \E g, h \in Goroutines :
         /\ g # h
         /\ goroutines[g].stack # <<>> /\ goroutines[h].stack # <<>>
         /\ goroutines[g].env = goroutines[h].env
         /\ "I" \in DOMAIN envs[goroutines[g].env].kv
         /\ envs[goroutines[g].env].kv["I"].t = "int"
         /\ \E c \in finished :
              /\ c.env = goroutines[g].env
              /\ c.op = "Eval" /\ c.out.err # NoError

\* C10: when the left operand is nil and the operator is none of == != &&
\* ||, the result is nil and there is no error, whatever the right operand
\* evaluates to; == is true and != false exactly when the right operand is
\* nil too.
NilLeft ==
    /\ IsBinary /\ Tree.Op \notin {"&&", "||"}
    /\ ~IsPanic(LeftValue) /\ IsNil(normalize(LeftValue))
    /\ ~IsPanic(RightValue)
C10_LeftNil ==
    (last.op = "Eval" /\ NilLeft) =>
        last.out = Returned(CASE Tree.Op = "==" -> GoBool(IsNil(RightValue))
                              [] Tree.Op = "!=" -> GoBool(~IsNil(RightValue))
                              [] OTHER -> Nil,
                            NoError)

C10_Witness ==
    /\ last.op = "Eval" /\ NilLeft /\ Tree.Op = "/"
    /\ normalize(RightValue) = Int64(0)
    /\ last.out = Returned(Nil, NoError)

=============================================================================
